---- MODULE Spec2Model ----
(***************************************************************************)
(* prometheus_gce_sd: the discovery-and-write loop of src/main.go.          *)
(*                                                                         *)
(* Strings whose content the code computes with or orders (endpoints, tag  *)
(* lists, resource URIs, names) are sequences of byte values, so that      *)
(* Sprintf, Join, Split and Go's string "<" are computed, not assumed.     *)
(* Label keys are opaque strings; their order in an encoded document is    *)
(* LabelKeyOrder.                                                          *)
(***************************************************************************)
EXTENDS Integers, Sequences, FiniteSets, TLC

(***************************************************************************)
(* Bounds of the model.                                                    *)
(***************************************************************************)
\* longest instance listing the inventory API returns for one project
MaxListing == 2
\* cycles the main goroutine runs before the model stops exploring
MaxCycles == 2
\* longest Target Set given to targetsDifferent as a pure function
MaxTargets == 2
\* most rules in a configuration document given to LoadConfigFile
MaxRules == 2
\* longest tag list of a rule given to DiscoverComputeByTags alone
MaxTags == 2

(***************************************************************************)
(* Byte strings.                                                           *)
(***************************************************************************)
Min(a, b) == IF a < b THEN a ELSE b

\* Go's s < t on strings: bytewise lexicographic, a proper prefix is smaller.
RECURSIVE StrLessFrom(_, _, _)
StrLessFrom(s, t, i) ==
    IF i > Len(s) THEN i <= Len(t)
    ELSE IF i > Len(t) THEN FALSE
    ELSE IF s[i] # t[i] THEN s[i] < t[i]
    ELSE StrLessFrom(s, t, i + 1)

StrLess(s, t) == StrLessFrom(s, t, 1)

\* fmt's %v of a non-negative int: its decimal digits.
RECURSIVE Itoa(_)
Itoa(n) == IF n < 10 THEN <<48 + n>> ELSE Itoa(n \div 10) \o <<48 + (n % 10)>>

\* strings.Join(items, sep)
RECURSIVE Join(_, _)
Join(items, sep) ==
    IF Len(items) = 0 THEN <<>>
    ELSE IF Len(items) = 1 THEN items[1]
    ELSE items[1] \o sep \o Join(Tail(items), sep)

\* index of the last "/" (byte 47) of s at or before i, 0 when there is none
RECURSIVE LastSlash(_, _)
LastSlash(s, i) ==
    IF i = 0 THEN 0 ELSE IF s[i] = 47 THEN i ELSE LastSlash(s, i - 1)

\* parts := strings.Split(resource, "/"); return parts[len(parts)-1]
parseResource(resource) ==
    SubSeq(resource, LastSlash(resource, Len(resource)) + 1, Len(resource))

\* strings.ToLower(strings.Replace(tag, "-", "_", -1)) on ASCII
formatTag(tag) ==
    [i \in 1..Len(tag) |->
        IF tag[i] = 45 THEN 95
        ELSE IF tag[i] >= 65 /\ tag[i] <= 90 THEN tag[i] + 32
        ELSE tag[i]]

(***************************************************************************)
(* Data of the inventory API and of the configuration.  A Go pointer is a  *)
(* sequence of length 0 (nil) or 1 (the value it points to).               *)
(***************************************************************************)
Nil == <<>>
Ptr(v) == <<v>>

sWeb == <<119, 101, 98>>
sDb == <<100, 98>>
sIP1 == <<49, 48, 46, 48, 46, 48, 46, 49>>
sIP2 == <<49, 48, 46, 48, 46, 48, 46, 50>>
sZone == <<122, 111, 110, 101, 115, 47, 122, 49>>
sType == <<109, 97, 99, 104, 105, 110, 101, 84, 121, 112, 101, 115, 47, 110, 49>>
sP1 == <<112, 49>>
sP2 == <<112, 50>>
sP3 == <<112, 51>>
sJ == <<106>>
sK == <<107>>

\* compute.Instance: Tags is a *compute.Tags, NetworkInterfaces a slice of
\* *compute.NetworkInterface.
Instance(name, tags, ifaces) ==
    [Name |-> name, Zone |-> sZone, MachineType |-> sType,
     Tags |-> tags, NetworkInterfaces |-> ifaces]

Tags(items) == Ptr([Items |-> items])
Iface(ip) == Ptr([NetworkIP |-> ip])

\* The instances the inventories hold.  InstB and InstC share an internal IP
\* (they sit in different networks of one project); InstD has no usable
\* interface; InstE has no tag set.
InstB == Instance(<<98>>, Tags(<<sWeb, sDb>>), <<Nil, Iface(sIP2)>>)
InstC == Instance(<<99>>, Tags(<<sDb, sWeb>>), <<Iface(sIP2)>>)
InstD == Instance(<<100>>, Tags(<<sWeb>>), <<Nil>>)
InstE == Instance(<<101>>, Nil, <<Iface(sIP1)>>)
InstF == Instance(<<102>>, Tags(<<sDb>>), <<Iface(sIP1)>>)

\* what a page of the API can hold for each project: pointers to instances,
\* some of them nil
PoolOf(project) ==
    IF project = sP1 THEN {Ptr(InstB), Ptr(InstC), Ptr(InstD)}
    ELSE IF project = sP2 THEN {Ptr(InstF), Nil}
    ELSE {Ptr(InstE)}

SearchConfig(job, tags, project, ports) ==
    [Job |-> job, Tags |-> tags, Project |-> project, Ports |-> ports]

\* Validated rule sets (ValidateConfig holds of every rule): two rules that
\* match the same instances of one project on the same port; three rules over
\* two projects, the first with two ports and the third naming the project of
\* the first again.
RuleSets ==
    { <<SearchConfig(sJ, <<sWeb>>, sP1, <<80>>),
        SearchConfig(sK, <<sWeb, sDb>>, sP1, <<80>>)>>,
      <<SearchConfig(sJ, <<sDb>>, sP2, <<9, 10>>),
        SearchConfig(sK, <<sDb>>, sP3, <<80>>),
        SearchConfig(sK, <<sDb>>, sP2, <<80>>)>> }

Jobs == {sJ, sK}

ProjectsOf(searchConfigs) ==
    {searchConfigs[i].Project : i \in 1..Len(searchConfigs)}

\* sequences over S without repetition, of length at most n
RECURSIVE DistinctSeqs(_, _)
DistinctSeqs(S, n) ==
    IF n = 0 THEN {<<>>}
    ELSE LET shorter == DistinctSeqs(S, n - 1)
         IN shorter \cup
            {Append(q, x) : q \in {r \in shorter : Len(r) = n - 1}, x \in S}

NoRepeat(q) == \A i, j \in 1..Len(q) : i # j => q[i] # q[j]

\* What AggregatedList(project).Pages yields in one cycle: an error (the call
\* failed or the cycle's deadline passed) or the instance pointers in the order
\* the pages and the zone map delivered them.
ApiResults(project) ==
    {[err |-> TRUE, instances |-> <<>>]} \cup
    {[err |-> FALSE, instances |-> q] :
        q \in {r \in DistinctSeqs(PoolOf(project), MaxListing) : NoRepeat(r)}}

\* the answers of the API in one cycle to the listings of the projects ps
AnswersFor(ps) ==
    LET each == [p \in ps |-> ApiResults(p)]
    IN {a \in [ps -> UNION {each[p] : p \in ps}] : \A p \in ps : a[p] \in each[p]}

\* the answers of the API in one cycle, for each set of projects a rule set names
ApiAnswers ==
    [ps \in {ProjectsOf(rs) : rs \in RuleSets} |-> AnswersFor(ps)]

(***************************************************************************)
(* Loading the rules.  A configuration document is the sequence of YAML    *)
(* mappings of the file: each a function from keys to values.              *)
(***************************************************************************)
\* the keys SearchConfig has a field for
KnownKeys == {"job", "tags", "project", "ports"}

Field(m, k, zero) == IF k \in DOMAIN m THEN m[k] ELSE zero

\* yaml.Unmarshal of one mapping into a SearchConfig: a key that is missing
\* leaves the zero value of its field, a key without a field goes to XXX
Unmarshal(m) ==
    [Job |-> Field(m, "job", <<>>), Tags |-> Field(m, "tags", <<>>),
     Project |-> Field(m, "project", <<>>), Ports |-> Field(m, "ports", <<>>),
     XXX |-> [k \in DOMAIN m \ KnownKeys |-> m[k]]]

\* ValidateConfig with the check of the ports left out
ValidateConfig_portsUnchecked(conf) ==
    IF DOMAIN conf.XXX # {} THEN "Unknown keys in config"
    ELSE IF conf.Job = <<>> THEN "No job specified"
    ELSE IF Len(conf.Tags) = 0 THEN "No tags specified"
    ELSE IF conf.Project = <<>> THEN "No project specified"
    ELSE "nil"

\* main.go ValidateConfig: the error it returns, "nil" for none
ValidateConfig(conf) ==
    IF DOMAIN conf.XXX # {} THEN "Unknown keys in config"
    ELSE IF conf.Job = <<>> THEN "No job specified"
    ELSE IF Len(conf.Tags) = 0 THEN "No tags specified"
    ELSE IF conf.Project = <<>> THEN "No project specified"
    ELSE IF Len(conf.Ports) = 0 THEN "No ports specified"
    ELSE "nil"

\* main.go LoadConfigFile.  f.read says whether ioutil.ReadFile and
\* yaml.Unmarshal succeed ("ok") or which of them fails; f.doc is the document.
LoadConfigFile(f) ==
    IF f.read # "ok" THEN [err |-> TRUE, config |-> <<>>]
    ELSE LET config == [i \in 1..Len(f.doc) |-> Unmarshal(f.doc[i])]
         IN IF \E i \in 1..Len(config) : ValidateConfig(config[i]) # "nil"
            THEN [err |-> TRUE, config |-> <<>>]
            ELSE [err |-> FALSE, config |-> config]

(***************************************************************************)
(* Tag Filter and Target Mapper.                                           *)
(***************************************************************************)
\* tagsMatch satisfied by one search tag alone
tagsMatch_anyTag(searchTags, instanceTags) ==
    \/ Len(searchTags) = 0
    \/ \E s \in 1..Len(searchTags) :
          \E t \in 1..Len(instanceTags) : searchTags[s] = instanceTags[t]

\* main.go tagsMatch: every search tag equals some instance tag
tagsMatch(searchTags, instanceTags) ==
    \A s \in 1..Len(searchTags) :
        \E t \in 1..Len(instanceTags) : searchTags[s] = instanceTags[t]

\* findInstanceIP taking the last interface that is not nil
RECURSIVE findInstanceIP_lastInterface(_)
findInstanceIP_lastInterface(ifaces) ==
    IF Len(ifaces) = 0 THEN [err |-> TRUE, ip |-> <<>>]
    ELSE IF ifaces[Len(ifaces)] = Nil
         THEN findInstanceIP_lastInterface(SubSeq(ifaces, 1, Len(ifaces) - 1))
    ELSE [err |-> FALSE, ip |-> ifaces[Len(ifaces)][1].NetworkIP]

\* main.go findInstanceIP: the NetworkIP of the first non-nil interface
RECURSIVE findInstanceIP(_)
findInstanceIP(ifaces) ==
    IF Len(ifaces) = 0 THEN [err |-> TRUE, ip |-> <<>>]
    ELSE IF Head(ifaces) = Nil THEN findInstanceIP(Tail(ifaces))
    ELSE [err |-> FALSE, ip |-> Head(ifaces)[1].NetworkIP]

kJob == "job"
kTags == "__meta_gce_instance_tags"
kZone == "__meta_gce_instance_zone"
kType == "__meta_gce_instance_type"
kProject == "__meta_gce_instance_project"
kName == "__meta_gce_instance_name"
kEnv == "env"

\* fmt.Sprintf("%v:%v", ip, port)
Endpoint(ip, port) == ip \o <<58>> \o Itoa(port)

\* the label map InstanceToTargets builds; instance.Tags is dereferenced
MetaLabels(instance, config) ==
    (kJob :> config.Job)
    @@ (kTags :> (<<44>> \o Join(instance.Tags[1].Items, <<44>>) \o <<44>>))
    @@ (kZone :> parseResource(instance.Zone))
    @@ (kType :> parseResource(instance.MachineType))
    @@ (kProject :> config.Project)
    @@ (kName :> instance.Name)

\* main.go InstanceToTargets: one DiscoveryTarget per port, each with a single
\* endpoint; an error and no targets when no interface is usable
InstanceToTargets(instance, config) ==
    LET r == findInstanceIP(instance.NetworkInterfaces)
    IN IF r.err THEN [err |-> TRUE, targets |-> <<>>]
       ELSE [err |-> FALSE,
             targets |->
                [p \in 1..Len(config.Ports) |->
                    [Targets |-> <<Endpoint(r.ip, config.Ports[p])>>,
                     Labels |-> MetaLabels(instance, config)]]]

IsNilPtr(p) == p = Nil
HasNilTags(p) == p # Nil /\ p[1].Tags = Nil

\* main.go DiscoverComputeByTags: nil pointers are passed over; instance.Tags.Items
\* is evaluated for every other instance, which panics (nil dereference) when
\* instance.Tags is nil
DiscoverComputeByTags(allInstances, searchTags) ==
    IF \E i \in 1..Len(allInstances) : HasNilTags(allInstances[i])
    THEN [panic |-> TRUE, instances |-> <<>>]
    ELSE LET Keep(p) == ~IsNilPtr(p) /\ tagsMatch(searchTags, p[1].Tags[1].Items)
         IN [panic |-> FALSE, instances |-> SelectSeq(allInstances, Keep)]

\* main.go listAllInstances: the listing without its nil entries, or the error
listAllInstances(api, project) ==
    LET NotNil(p) == ~IsNilPtr(p)
    IN [err |-> api[project].err,
        instances |-> SelectSeq(api[project].instances, NotNil)]

(***************************************************************************)
(* Discovery: one pass over the rules.                                     *)
(***************************************************************************)
\* main.go DiscoverTargets, lines 160-166: the targets of the matching instances
\* in order; the first instance without a usable interface ends the pass
RECURSIVE MapInstances(_, _, _)
MapInstances(instances, config, acc) ==
    IF Len(instances) = 0 THEN [err |-> FALSE, targets |-> acc]
    ELSE LET r == InstanceToTargets(Head(instances)[1], config)
         IN IF r.err THEN [err |-> TRUE, targets |-> <<>>]
            ELSE MapInstances(Tail(instances), config, acc \o r.targets)

\* number of targets whose job label is job (lines 169-173)
CountJob(targets, job) ==
    Cardinality({i \in 1..Len(targets) : targets[i].Labels[kJob] = job})

\* main.go DiscoverTargets, the loop over the rules from rule i on.  cache is
\* instancesByProject, fetched the projects listed so far, in order.
RECURSIVE DiscoverFrom(_, _, _, _, _, _)
DiscoverFrom(api, searchConfigs, i, targets, cache, fetched) ==
    IF i > Len(searchConfigs)
    THEN [status |-> "ok", targets |-> targets, fetched |-> fetched]
    ELSE
      LET config == searchConfigs[i]
          hit == config.Project \in DOMAIN cache
          listed == IF hit THEN [err |-> FALSE, instances |-> cache[config.Project]]
                    ELSE listAllInstances(api, config.Project)
          fetched2 == IF hit THEN fetched ELSE Append(fetched, config.Project)
          cache2 == IF hit \/ listed.err THEN cache
                    ELSE cache @@ (config.Project :> listed.instances)
          found == DiscoverComputeByTags(listed.instances, config.Tags)
          mapped == MapInstances(found.instances, config, <<>>)
      IN IF listed.err
         THEN [status |-> "fetch", targets |-> <<>>, fetched |-> fetched2]
         ELSE IF found.panic
         THEN [status |-> "panic", targets |-> <<>>, fetched |-> fetched2]
         ELSE IF mapped.err
         THEN [status |-> "map", targets |-> <<>>, fetched |-> fetched2]
         ELSE DiscoverFrom(api, searchConfigs, i + 1,
                           targets \o mapped.targets, cache2, fetched2)

\* main.go DiscoverTargets: the cache starts empty in every call
DiscoverTargets(api, searchConfigs) ==
    DiscoverFrom(api, searchConfigs, 1, <<>>, <<>>, <<>>)

\* lines 169-176: the gauge of every job that has targets is set to its count;
\* the gauge of a job without targets is not touched
SetTargetCount(gauge, targets) ==
    [j \in DOMAIN gauge \cup {k \in Jobs : CountJob(targets, k) > 0} |->
        IF CountJob(targets, j) > 0 THEN CountJob(targets, j) ELSE gauge[j]]

(***************************************************************************)
(* Target Set Differ and the output file.                                  *)
(***************************************************************************)
\* discoveryTargets.Less: the first endpoints compared as strings
Less(a, b) == StrLess(a.Targets[1], b.Targets[1])

Swap(dt, i, j) == [dt EXCEPT ![i] = dt[j], ![j] = dt[i]]

\* sort.insertionSort: element i moves left while it is Less than its neighbour
RECURSIVE SiftLeft(_, _)
SiftLeft(dt, j) ==
    IF j > 1 /\ Less(dt[j], dt[j - 1]) THEN SiftLeft(Swap(dt, j, j - 1), j - 1)
    ELSE dt

RECURSIVE InsertionFrom(_, _)
InsertionFrom(dt, i) ==
    IF i > Len(dt) THEN dt ELSE InsertionFrom(SiftLeft(dt, i), i + 1)

\* the ShellSort pass with gap 6 that sort.Sort makes before the insertion sort
RECURSIVE ShellPass(_, _)
ShellPass(dt, i) ==
    IF i > Len(dt) THEN dt
    ELSE ShellPass(IF Less(dt[i], dt[i - 6]) THEN Swap(dt, i, i - 6) ELSE dt, i + 1)

\* sort.Sort(discoveryTargets) of the Go release the Makefile builds with, for
\* the at most 12 elements the model's bounds produce: not stable in general
SortTargets(dt) == InsertionFrom(ShellPass(dt, 7), 2)

\* the order in which yaml.Marshal writes the keys of a map
LabelKeyOrder == <<kName, kProject, kTags, kType, kZone, kEnv, kJob>>

\* yaml.Marshal of one DiscoveryTarget: the endpoints in slice order, then the
\* labels as key/value pairs in key order
MarshalTarget(t) ==
    LET InLabels(k) == k \in DOMAIN t.Labels
        keys == SelectSeq(LabelKeyOrder, InLabels)
    IN [targets |-> t.Targets,
        labels |-> [i \in 1..Len(keys) |-> <<keys[i], t.Labels[keys[i]]>>]]

\* a Go slice of DiscoveryTarget: nil, or its items
NilSlice == [nil |-> TRUE, items |-> <<>>]
Slice(items) == [nil |-> FALSE, items |-> items]

\* yaml.Marshal([]DiscoveryTarget): the document, one entry per target; a nil
\* slice and an empty slice both encode as "[]"
Marshal(slice) == [i \in 1..Len(slice.items) |-> MarshalTarget(slice.items[i])]

\* targetsDifferent comparing the endpoints alone
targetsDifferent_endpointsOnly(old, new) ==
    LET Ends(items) == [i \in 1..Len(items) |-> items[i].Targets]
    IN Ends(SortTargets(old.items)) # Ends(SortTargets(new.items))

\* main.go targetsDifferent: both slices sorted, encoded, the bytes compared
targetsDifferent(old, new) ==
    Marshal(Slice(SortTargets(old.items))) # Marshal(Slice(SortTargets(new.items)))

\* the output file: as it was before the process started (absent, or whatever
\* an earlier run left there), holding an encoded document, or cut short by a
\* write that failed after os.Create had truncated the file
FilePrior == [kind |-> "prior", doc |-> <<>>]
FileTruncated == [kind |-> "truncated", doc |-> <<>>]
FileOf(doc) == [kind |-> "yaml", doc |-> doc]

\* sort.Sort on a conversion of a slice: the slice's own array is sorted
SortSlice(slice) == [slice EXCEPT !.items = SortTargets(@)]

(***************************************************************************)
(* The program's state.                                                    *)
(***************************************************************************)
VARIABLES
    config,          \* the rule set LoadConfigFile returned
    currentTargets,  \* main's currentTargets
    file,            \* content of the output file
    syncSuccess,     \* gcesd_sync_count{result="success"}
    syncFailure,     \* gcesd_sync_count{result="failure"}
    resultWrite,     \* gcesd_target_write_count
    targetCount,     \* gcesd_targets, by job
    tChan,           \* the buffered trigger channel of tickAndListen
    sigChan,         \* signals buffered in sigChan (capacity 1)
    tickerPc,        \* where tickAndListen's goroutine stands
    mainPc,          \* where the main goroutine stands
    force,           \* the trigger the running cycle received
    newTargets,      \* loop's newTargets (a nil slice while no cycle has any)
    loopErr,         \* the error loop returns (TRUE: an error)
    cycle,           \* history: what the cycle in progress has done so far
    lastCycle,       \* history: what the last cycle that ran did
    lastWritten,     \* history: the slice of the last write that succeeded
    signalled,       \* history: a signal arrived and no forced cycle has started since
    dOld, dNew, dEdit, dResult,  \* arguments and result of targetsDifferent alone
    fnIn, fnOut      \* input and result of one call of a function of main.go

vars == <<config, currentTargets, file, syncSuccess, syncFailure, resultWrite,
          targetCount, tChan, sigChan, tickerPc, mainPc, force, newTargets,
          loopErr, cycle, lastCycle, lastWritten, signalled, dOld, dNew, dEdit,
          dResult, fnIn, fnOut>>

loopVars == <<config, currentTargets, file, syncSuccess, syncFailure, resultWrite,
              targetCount, tChan, sigChan, tickerPc, mainPc, force, newTargets,
              loopErr, cycle, lastCycle, lastWritten, signalled>>

\* the variables of one call of loop
cycleVars == <<newTargets, loopErr, cycle>>

diffVars == <<dOld, dNew, dEdit, dResult>>

fnVars == <<fnIn, fnOut>>

\* fnIn and fnOut while no function is called alone
NoCall == [op |-> "none"]

\* capacity of tChan and of sigChan
TChanCap == 2
SigChanCap == 1

\* a cycle's record: the trigger, the API's answers, the outcome of discovery
\* (status), whether WriteTargets was called (wrote) and with what outcome (io),
\* whether loop returned an error (err), whether the discovered set differed
\* from the last one written, and the file, the write counter and
\* currentTargets as the cycle found them (before)
NoCycle ==
    [status |-> "none", force |-> FALSE, wrote |-> FALSE, io |-> "none",
     err |-> FALSE, api |-> <<>>, new |-> <<>>, fetched |-> <<>>,
     differed |-> FALSE,
     before |-> [file |-> FilePrior, resultWrite |-> 0,
                 currentTargets |-> NilSlice]]

\* main inside tickAndListen, its goroutine started and its own first send not
\* yet made: tChan is empty, nothing has been discovered or written, the file
\* is whatever was there before
Init ==
    /\ config \in RuleSets
    /\ currentTargets = NilSlice
    /\ file = FilePrior
    /\ syncSuccess = 0
    /\ syncFailure = 0
    /\ resultWrite = 0
    /\ targetCount = <<>>
    /\ tChan = <<>>
    /\ sigChan = 0
    /\ tickerPc = "select"
    /\ mainPc = "kickoff"
    /\ force = FALSE
    /\ newTargets = NilSlice
    /\ loopErr = FALSE
    /\ cycle = NoCycle
    /\ lastCycle = NoCycle
    /\ lastWritten = NilSlice
    /\ signalled = FALSE
    /\ dOld = NilSlice
    /\ dNew = NilSlice
    /\ dEdit = "none"
    /\ dResult = "none"
    /\ fnIn = NoCall
    /\ fnOut = NoCall

(***************************************************************************)
(* tickAndListen's goroutine and the operator's signal.                    *)
(***************************************************************************)
\* the kernel delivers SIGUSR1: signal.Notify queues it unless sigChan is full
SignalArrives ==
    /\ mainPc # "crashed"
    /\ sigChan' = Min(sigChan + 1, SigChanCap)
    /\ signalled' = TRUE
    /\ UNCHANGED <<config, currentTargets, file, syncSuccess, syncFailure,
                   resultWrite, targetCount, tChan, tickerPc, mainPc, force,
                   lastCycle, lastWritten, cycleVars, diffVars, fnVars>>

\* select: case <-time.After(interval)
TimerFires ==
    /\ mainPc # "crashed"
    /\ tickerPc = "select"
    /\ tickerPc' = "send-false"
    /\ UNCHANGED <<config, currentTargets, file, syncSuccess, syncFailure,
                   resultWrite, targetCount, tChan, sigChan, mainPc, force,
                   lastCycle, lastWritten, signalled, cycleVars,
                   diffVars, fnVars>>

\* select: case <-sigChan
SignalTaken ==
    /\ mainPc # "crashed"
    /\ tickerPc = "select"
    /\ sigChan > 0
    /\ sigChan' = sigChan - 1
    /\ tickerPc' = "send-true"
    /\ UNCHANGED <<config, currentTargets, file, syncSuccess, syncFailure,
                   resultWrite, targetCount, tChan, mainPc, force,
                   lastCycle, lastWritten, signalled, cycleVars,
                   diffVars, fnVars>>

\* a send that does not block: on a full channel it takes the place of the
\* trigger queued last
TriggerSent_overwritesWhenFull ==
    /\ mainPc # "crashed"
    /\ tickerPc \in {"send-false", "send-true"}
    /\ tChan' = IF Len(tChan) < TChanCap
                THEN Append(tChan, tickerPc = "send-true")
                ELSE [tChan EXCEPT ![TChanCap] = (tickerPc = "send-true")]
    /\ tickerPc' = "select"
    /\ UNCHANGED <<config, currentTargets, file, syncSuccess, syncFailure,
                   resultWrite, targetCount, sigChan, mainPc, force,
                   lastCycle, lastWritten, signalled, cycleVars,
                   diffVars, fnVars>>

\* tChan <- false / tChan <- true: blocks while the channel is full
TriggerSent ==
    /\ mainPc # "crashed"
    /\ tickerPc \in {"send-false", "send-true"}
    /\ Len(tChan) < TChanCap
    /\ tChan' = Append(tChan, tickerPc = "send-true")
    /\ tickerPc' = "select"
    /\ UNCHANGED <<config, currentTargets, file, syncSuccess, syncFailure,
                   resultWrite, targetCount, sigChan, mainPc, force,
                   lastCycle, lastWritten, signalled, cycleVars,
                   diffVars, fnVars>>

(***************************************************************************)
(* The main goroutine.                                                     *)
(***************************************************************************)
\* tickAndListen's own tChan <- false, made after the goroutine was started:
\* it blocks while the channel is full, like any other send
KickOff ==
    /\ mainPc = "kickoff"
    /\ Len(tChan) < TChanCap
    /\ tChan' = Append(tChan, FALSE)
    /\ mainPc' = "range"
    /\ UNCHANGED <<config, currentTargets, file, syncSuccess, syncFailure,
                   resultWrite, targetCount, sigChan, tickerPc, force,
                   lastCycle, lastWritten, signalled, cycleVars,
                   diffVars, fnVars>>

\* the receive without waiting for the running cycle to return
TriggerReceived_whileRunning ==
    /\ mainPc \in {"range", "loop", "discovered", "create", "write", "written",
                  "returned"}
    /\ Len(tChan) > 0
    /\ syncSuccess + syncFailure < MaxCycles
    /\ force' = Head(tChan)
    /\ tChan' = Tail(tChan)
    /\ mainPc' = "loop"
    /\ signalled' = (signalled /\ ~Head(tChan))
    /\ cycle' = [NoCycle EXCEPT !.status = "running", !.force = Head(tChan),
                                !.before = [file |-> file,
                                            resultWrite |-> resultWrite,
                                            currentTargets |-> currentTargets]]
    /\ UNCHANGED <<config, currentTargets, file, syncSuccess, syncFailure,
                   resultWrite, targetCount, sigChan, tickerPc, newTargets,
                   loopErr, lastCycle, lastWritten, diffVars, fnVars>>

\* for force := range tickAndListen(...): the next trigger is received
TriggerReceived ==
    /\ mainPc = "range"
    /\ Len(tChan) > 0
    /\ syncSuccess + syncFailure < MaxCycles
    /\ force' = Head(tChan)
    /\ tChan' = Tail(tChan)
    /\ mainPc' = "loop"
    /\ signalled' = (signalled /\ ~Head(tChan))
    /\ cycle' = [NoCycle EXCEPT !.status = "running", !.force = Head(tChan),
                                !.before = [file |-> file,
                                            resultWrite |-> resultWrite,
                                            currentTargets |-> currentTargets]]
    /\ UNCHANGED <<config, currentTargets, file, syncSuccess, syncFailure,
                   resultWrite, targetCount, sigChan, tickerPc, newTargets,
                   loopErr, lastCycle, lastWritten, diffVars, fnVars>>

\* main stands inside an iteration of its for loop
InCycle ==
    mainPc \in {"loop", "discovered", "create", "write", "written", "returned"}

\* loop, line 388, and DiscoverTargets: the inventory is listed and mapped.  api
\* is what the inventory API answers in this cycle.  A panic in discovery ends
\* the process; an error makes loop return it; otherwise the gauge is set
\* (lines 169-176) before DiscoverTargets returns.
DiscoveryRuns ==
    /\ mainPc = "loop"
    /\ \E api \in ApiAnswers[ProjectsOf(config)] :
       \E r \in {DiscoverTargets(api, config)} :
       \E c \in {[cycle EXCEPT !.status = r.status, !.api = api,
                               !.new = r.targets, !.fetched = r.fetched]} :
          IF r.status = "panic"
          THEN /\ mainPc' = "crashed"
               /\ lastCycle' = [c EXCEPT !.err = TRUE]
               /\ cycle' = NoCycle
               /\ UNCHANGED <<targetCount, newTargets, loopErr>>
          ELSE IF r.status = "ok"
          THEN /\ mainPc' = "discovered"
               /\ targetCount' = SetTargetCount(targetCount, r.targets)
               /\ newTargets' = Slice(r.targets)
               /\ cycle' = c
               /\ UNCHANGED <<lastCycle, loopErr>>
          ELSE /\ mainPc' = "returned"
               /\ loopErr' = TRUE
               /\ cycle' = c
               /\ UNCHANGED <<targetCount, newTargets, lastCycle>>
    /\ UNCHANGED <<config, currentTargets, file, syncSuccess, syncFailure,
                   resultWrite, tChan, sigChan, tickerPc, force, lastWritten,
                   signalled, diffVars, fnVars>>

\* the test of lines 393-398 with the force flag left out of it
DifferRuns_forceIgnored ==
    /\ mainPc = "discovered"
    /\ newTargets' = SortSlice(newTargets)
    /\ currentTargets' = SortSlice(currentTargets)
    /\ IF targetsDifferent(newTargets, currentTargets)
       THEN /\ resultWrite' = resultWrite + 1
            /\ mainPc' = "create"
            /\ cycle' = [cycle EXCEPT !.wrote = TRUE]
            /\ UNCHANGED loopErr
       ELSE /\ mainPc' = "returned"
            /\ loopErr' = FALSE
            /\ UNCHANGED <<resultWrite, cycle>>
    /\ UNCHANGED <<config, file, syncSuccess, syncFailure, targetCount, tChan,
                   sigChan, tickerPc, force, lastCycle, lastWritten, signalled,
                   diffVars, fnVars>>

\* loop, lines 393-401: a forced cycle goes on to the write; any other calls
\* targetsDifferent, which sorts newTargets and currentTargets in place, and
\* returns nil when it finds no difference; before the write the write counter
\* is incremented
DifferRuns ==
    /\ mainPc = "discovered"
    /\ IF force
       THEN /\ resultWrite' = resultWrite + 1
            /\ mainPc' = "create"
            /\ cycle' = [cycle EXCEPT !.wrote = TRUE]
            /\ UNCHANGED <<newTargets, currentTargets, loopErr>>
       ELSE /\ newTargets' = SortSlice(newTargets)
            /\ currentTargets' = SortSlice(currentTargets)
            /\ IF targetsDifferent(newTargets, currentTargets)
               THEN /\ resultWrite' = resultWrite + 1
                    /\ mainPc' = "create"
                    /\ cycle' = [cycle EXCEPT !.wrote = TRUE]
                    /\ UNCHANGED loopErr
               ELSE /\ mainPc' = "returned"
                    /\ loopErr' = FALSE
                    /\ UNCHANGED <<resultWrite, cycle>>
    /\ UNCHANGED <<config, file, syncSuccess, syncFailure, targetCount, tChan,
                   sigChan, tickerPc, force, lastCycle, lastWritten, signalled,
                   diffVars, fnVars>>

\* WriteTargets, lines 280-292: the targets are sorted in place and encoded,
\* then os.Create truncates the file, or fails and leaves it as it was
FileCreated ==
    /\ mainPc = "create"
    /\ newTargets' = SortSlice(newTargets)
    /\ \E ok \in BOOLEAN :
          IF ok
          THEN /\ file' = FileTruncated
               /\ mainPc' = "write"
               /\ UNCHANGED <<loopErr, cycle>>
          ELSE /\ mainPc' = "returned"
               /\ loopErr' = TRUE
               /\ cycle' = [cycle EXCEPT !.io = "create-fails"]
               /\ UNCHANGED file
    /\ UNCHANGED <<config, currentTargets, syncSuccess, syncFailure, resultWrite,
                   targetCount, tChan, sigChan, tickerPc, force, lastCycle,
                   lastWritten, signalled, diffVars, fnVars>>

\* WriteTargets with currentTargets assigned when the write fails too
FileWritten_recordsFailedWrite ==
    /\ mainPc = "write"
    /\ \E ok \in BOOLEAN :
          IF ok
          THEN /\ file' = FileOf(Marshal(newTargets))
               /\ mainPc' = "written"
               /\ cycle' = [cycle EXCEPT !.io = "ok"]
               /\ UNCHANGED <<loopErr, currentTargets>>
          ELSE /\ mainPc' = "returned"
               /\ loopErr' = TRUE
               /\ currentTargets' = newTargets
               /\ cycle' = [cycle EXCEPT !.io = "write-fails"]
               /\ UNCHANGED file
    /\ UNCHANGED <<config, syncSuccess, syncFailure, resultWrite,
                   targetCount, tChan, sigChan, tickerPc, force, newTargets,
                   lastCycle, lastWritten, signalled, diffVars, fnVars>>

\* WriteTargets, lines 294-304: the document is written and flushed into the
\* truncated file, or the write fails and WriteTargets returns the error
FileWritten ==
    /\ mainPc = "write"
    /\ \E ok \in BOOLEAN :
          IF ok
          THEN /\ file' = FileOf(Marshal(newTargets))
               /\ mainPc' = "written"
               /\ cycle' = [cycle EXCEPT !.io = "ok"]
               /\ UNCHANGED loopErr
          ELSE /\ mainPc' = "returned"
               /\ loopErr' = TRUE
               /\ cycle' = [cycle EXCEPT !.io = "write-fails"]
               /\ UNCHANGED file
    /\ UNCHANGED <<config, currentTargets, syncSuccess, syncFailure, resultWrite,
                   targetCount, tChan, sigChan, tickerPc, force, newTargets,
                   lastCycle, lastWritten, signalled, diffVars, fnVars>>

\* loop, lines 406-407, after a write that succeeded
TargetsKept ==
    /\ mainPc = "written"
    /\ currentTargets' = newTargets
    /\ loopErr' = FALSE
    /\ mainPc' = "returned"
    /\ UNCHANGED <<config, file, syncSuccess, syncFailure, resultWrite,
                   targetCount, tChan, sigChan, tickerPc, force, newTargets,
                   cycle, lastCycle, lastWritten, signalled, diffVars, fnVars>>

\* the counters with the two branches of lines 412-417 exchanged
CountResult_branchesSwapped(err, success, failure) ==
    IF err THEN [success |-> success + 1, failure |-> failure]
    ELSE [success |-> success, failure |-> failure + 1]

\* lines 412-417: the counter that one call of loop increments
CountResult(err, success, failure) ==
    IF err THEN [success |-> success, failure |-> failure + 1]
    ELSE [success |-> success + 1, failure |-> failure]

\* main, lines 411-418: loop has returned, its result is counted and main is
\* back at the range statement
ResultCounted ==
    /\ mainPc = "returned"
    /\ \E c \in {CountResult(loopErr, syncSuccess, syncFailure)} :
          /\ syncSuccess' = c.success
          /\ syncFailure' = c.failure
    /\ mainPc' = "range"
    /\ lastCycle' = [cycle EXCEPT
                        !.err = loopErr,
                        !.differed = /\ cycle.status = "ok"
                                     /\ targetsDifferent(Slice(cycle.new),
                                                         lastWritten)]
    /\ lastWritten' = IF cycle.wrote /\ ~loopErr THEN Slice(cycle.new)
                      ELSE lastWritten
    /\ cycle' = NoCycle
    /\ newTargets' = NilSlice
    /\ loopErr' = FALSE
    /\ UNCHANGED <<config, currentTargets, file, resultWrite, targetCount, tChan,
                   sigChan, tickerPc, force, signalled, diffVars, fnVars>>

Next ==
    \/ SignalArrives
    \/ TimerFires
    \/ SignalTaken
    \/ TriggerSent
    \/ KickOff
    \/ TriggerReceived
    \/ DiscoveryRuns
    \/ DifferRuns
    \/ FileCreated
    \/ FileWritten
    \/ TargetsKept
    \/ ResultCounted

Spec == Init /\ [][Next]_vars

\* The same program with the scheduling Go gives it: a goroutine that can run
\* does run (the send into tChan, the receive in main); a select entered while
\* sigChan holds a signal takes it, since the timer of that select has only
\* just been started; and a cycle in progress comes to an end, by a return of
\* loop or by a panic (discovery runs under the deadline of discovery.timeout).
SpecFair ==
    /\ Init /\ [][Next]_vars
    /\ WF_vars(TriggerSent)
    /\ WF_vars(KickOff)
    /\ WF_vars(TriggerReceived)
    /\ SF_vars(SignalTaken)
    /\ []<>(~InCycle)

(***************************************************************************)
(* targetsDifferent alone, on Target Sets of any shape: a Target Set is    *)
(* chosen, one edit makes the second, the two are compared.                *)
(***************************************************************************)
sE1 == Endpoint(sIP1, 80)
sE2 == Endpoint(sIP2, 80)

EndpointLists == {<<sE1>>, <<sE2>>, <<sE1, sE2>>, <<sE2, sE1>>}
LabelMaps == {(kJob :> sJ), (kJob :> sJ) @@ (kEnv :> sK)}
LabelKeys == {kJob, kEnv}
LabelValues == {sJ, sK}

DiffTargets == {[Targets |-> e, Labels |-> l] : e \in EndpointLists, l \in LabelMaps}

RECURSIVE SeqsUpTo(_, _)
SeqsUpTo(S, n) ==
    IF n = 0 THEN {<<>>}
    ELSE LET shorter == SeqsUpTo(S, n - 1)
         IN shorter \cup
            {Append(q, x) : q \in {r \in shorter : Len(r) = n - 1}, x \in S}

DiffSets == SeqsUpTo(DiffTargets, MaxTargets)

Reverse(q) == [i \in 1..Len(q) |-> q[Len(q) + 1 - i]]
RemoveAt(q, i) == SubSeq(q, 1, i - 1) \o SubSeq(q, i + 1, Len(q))
Without(f, k) == [x \in DOMAIN f \ {k} |-> f[x]]

DiffInit ==
    /\ dOld \in {Slice(q) : q \in DiffSets}
    /\ dNew = dOld
    /\ dEdit = "none"
    /\ dResult = "none"
    /\ config = <<>>
    /\ currentTargets = NilSlice
    /\ file = FilePrior
    /\ syncSuccess = 0
    /\ syncFailure = 0
    /\ resultWrite = 0
    /\ targetCount = <<>>
    /\ tChan = <<>>
    /\ sigChan = 0
    /\ tickerPc = "select"
    /\ mainPc = "range"
    /\ force = FALSE
    /\ newTargets = NilSlice
    /\ loopErr = FALSE
    /\ cycle = NoCycle
    /\ lastCycle = NoCycle
    /\ lastWritten = NilSlice
    /\ signalled = FALSE
    /\ fnIn = NoCall
    /\ fnOut = NoCall

Edited(kind, items) ==
    /\ dEdit = "none"
    /\ dResult = "none"
    /\ dEdit' = kind
    /\ dNew' = Slice(items)
    /\ UNCHANGED <<dOld, dResult, loopVars, fnVars>>

\* two neighbouring Targets change places
PermuteTargets ==
    \E i \in 1..(Len(dOld.items) - 1) :
        Edited("permute-targets", Swap(dOld.items, i, i + 1))

\* the endpoint list of one Target is reversed
PermuteEndpoints ==
    \E i \in 1..Len(dOld.items) :
        Edited("permute-endpoints",
               [dOld.items EXCEPT ![i].Targets = Reverse(@)])

DropTarget ==
    \E i \in 1..Len(dOld.items) : Edited("drop-target", RemoveAt(dOld.items, i))

AddTarget ==
    \E t \in DiffTargets : Edited("add-target", Append(dOld.items, t))

\* one Target gets endpoints that are another set of strings
ChangeEndpoints ==
    \E i \in 1..Len(dOld.items), e \in EndpointLists :
        /\ {e[n] : n \in 1..Len(e)} #
           {dOld.items[i].Targets[n] : n \in 1..Len(dOld.items[i].Targets)}
        /\ Edited("change-endpoints", [dOld.items EXCEPT ![i].Targets = e])

ChangeLabelValue ==
    \E i \in 1..Len(dOld.items) :
    \E k \in DOMAIN dOld.items[i].Labels, v \in LabelValues :
        /\ v # dOld.items[i].Labels[k]
        /\ Edited("change-label-value", [dOld.items EXCEPT ![i].Labels[k] = v])

AddLabelKey ==
    \E i \in 1..Len(dOld.items) :
    \E k \in LabelKeys \ DOMAIN dOld.items[i].Labels, v \in LabelValues :
        Edited("add-label-key",
               [dOld.items EXCEPT ![i].Labels = @ @@ (k :> v)])

RemoveLabelKey ==
    \E i \in 1..Len(dOld.items) :
    \E k \in DOMAIN dOld.items[i].Labels :
        Edited("remove-label-key",
               [dOld.items EXCEPT ![i].Labels = Without(@, k)])

Compare ==
    /\ dResult = "none"
    /\ dResult' = IF targetsDifferent(dOld, dNew) THEN "different" ELSE "same"
    /\ dOld' = SortSlice(dOld)
    /\ dNew' = SortSlice(dNew)
    /\ UNCHANGED <<dEdit, loopVars, fnVars>>

DiffNext ==
    \/ PermuteTargets
    \/ PermuteEndpoints
    \/ DropTarget
    \/ AddTarget
    \/ ChangeEndpoints
    \/ ChangeLabelValue
    \/ AddLabelKey
    \/ RemoveLabelKey
    \/ Compare

SpecDiff == DiffInit /\ [][DiffNext]_vars

(***************************************************************************)
(* The functions of main.go one at a time: an input is chosen, the         *)
(* function is called once, its result is kept.                            *)
(***************************************************************************)
sWebUp == <<87, 101, 98>>
sHyphen == <<65, 45, 98>>
sZoneBare == <<122, 49>>
sZoneSlash == <<122, 111, 110, 101, 115, 47>>

\* configuration documents: rules that are complete, and rules with a field
\* missing or empty or with a key SearchConfig has no field for
RuleDocs ==
    LET full == ("job" :> sJ) @@ ("tags" :> <<sWeb>>) @@ ("project" :> sP1)
                @@ ("ports" :> <<80>>)
        other == ("job" :> sK) @@ ("tags" :> <<sDb, sWeb>>) @@ ("project" :> sP2)
                 @@ ("ports" :> <<9, 10>>)
    IN {full, other,
        [full EXCEPT !["job"] = <<>>],
        [full EXCEPT !["tags"] = <<>>],
        [full EXCEPT !["project"] = <<>>],
        [full EXCEPT !["ports"] = <<>>],
        ("job" :> sJ) @@ ("tags" :> <<sWeb>>) @@ ("project" :> sP1),
        full @@ ("port" :> <<80>>)}

LoadInputs ==
    {[op |-> "load", read |-> r, doc |-> d] :
        r \in {"ok", "unreadable", "malformed"}, d \in SeqsUpTo(RuleDocs, MaxRules)}

\* rules over two projects, the first of which is named again by the third
TwoProjectRules ==
    <<SearchConfig(sJ, <<sWeb>>, sP1, <<80>>),
      SearchConfig(sK, <<sDb>>, sP2, <<80>>),
      SearchConfig(sK, <<sWeb, sDb>>, sP1, <<9>>)>>

DiscoverInputs ==
    UNION {{[op |-> "discover", rules |-> rs, api |-> a] :
                a \in AnswersFor(ProjectsOf(rs))} :
           rs \in RuleSets \cup {TwoProjectRules}}

FnTags == {sWeb, sDb, sWebUp}

\* the instances given to the tag filter: nil, or one of these tag lists
FilterPool ==
    {Nil} \cup
    {Ptr(Instance(<<105>>, Tags(tl), <<Iface(sIP1)>>)) :
        tl \in {<<>>, <<sWeb>>, <<sWebUp>>, <<sWeb, sDb>>, <<sDb, sWeb>>}}

FilterInputs ==
    {[op |-> "filter", searchTags |-> st, allInstances |-> q] :
        st \in SeqsUpTo(FnTags, MaxTags), q \in SeqsUpTo(FilterPool, MaxListing)}

\* the instances given to the mapper: they have a tag set, as every instance
\* the tag filter passes has
MapInstancesIn ==
    {[Name |-> <<105>>, Zone |-> z, MachineType |-> sType, Tags |-> Tags(tl),
      NetworkInterfaces |-> nics] :
        z \in {sZone, sZoneBare, sZoneSlash, <<>>},
        tl \in {<<>>, <<sWeb>>, <<sHyphen, sDb>>},
        nics \in {<<>>, <<Nil>>, <<Nil, Nil>>, <<Nil, Iface(sIP2)>>,
                  <<Iface(sIP1), Iface(sIP2)>>, <<Iface(sIP2), Nil, Iface(sIP1)>>}}

MapInputs ==
    {[op |-> "map", instance |-> inst, rule |-> SearchConfig(sJ, <<sWeb>>, sP1, ports)] :
        inst \in MapInstancesIn, ports \in {<<80>>, <<9, 10>>, <<10, 9>>, <<0, 8080>>}}

FnInit ==
    /\ fnIn \in LoadInputs \cup DiscoverInputs \cup FilterInputs \cup MapInputs
    /\ fnOut = NoCall
    /\ config = <<>>
    /\ currentTargets = NilSlice
    /\ file = FilePrior
    /\ syncSuccess = 0
    /\ syncFailure = 0
    /\ resultWrite = 0
    /\ targetCount = <<>>
    /\ tChan = <<>>
    /\ sigChan = 0
    /\ tickerPc = "select"
    /\ mainPc = "start"
    /\ force = FALSE
    /\ newTargets = NilSlice
    /\ loopErr = FALSE
    /\ cycle = NoCycle
    /\ lastCycle = NoCycle
    /\ lastWritten = NilSlice
    /\ signalled = FALSE
    /\ dOld = NilSlice
    /\ dNew = NilSlice
    /\ dEdit = "none"
    /\ dResult = "none"

\* main, lines 362-366: the rules are loaded; on an error the process exits,
\* otherwise main goes on to tickAndListen
CallLoadConfigFile ==
    /\ fnIn.op = "load"
    /\ fnOut = NoCall
    /\ \E r \in {LoadConfigFile(fnIn)} :
          /\ fnOut' = [op |-> "load", err |-> r.err, config |-> r.config]
          /\ config' = r.config
          /\ mainPc' = IF r.err THEN "exited" ELSE "kickoff"
          /\ tChan' = <<>>
    /\ UNCHANGED <<currentTargets, file, syncSuccess, syncFailure, resultWrite,
                   targetCount, sigChan, tickerPc, force, lastCycle, lastWritten,
                   signalled, cycleVars, diffVars, fnIn>>

CallDiscoverTargets ==
    /\ fnIn.op = "discover"
    /\ fnOut = NoCall
    /\ \E r \in {DiscoverTargets(fnIn.api, fnIn.rules)} :
          /\ fnOut' = [op |-> "discover", status |-> r.status,
                       targets |-> r.targets, fetched |-> r.fetched]
          /\ targetCount' = IF r.status = "ok"
                            THEN SetTargetCount(targetCount, r.targets)
                            ELSE targetCount
    /\ UNCHANGED <<config, currentTargets, file, syncSuccess, syncFailure,
                   resultWrite, tChan, sigChan, tickerPc, mainPc, force,
                   lastCycle, lastWritten, signalled, cycleVars, diffVars, fnIn>>

CallDiscoverComputeByTags ==
    /\ fnIn.op = "filter"
    /\ fnOut = NoCall
    /\ \E r \in {DiscoverComputeByTags(fnIn.allInstances, fnIn.searchTags)} :
          fnOut' = [op |-> "filter", panic |-> r.panic, instances |-> r.instances]
    /\ UNCHANGED <<loopVars, diffVars, fnIn>>

CallInstanceToTargets ==
    /\ fnIn.op = "map"
    /\ fnOut = NoCall
    /\ \E r \in {InstanceToTargets(fnIn.instance, fnIn.rule)} :
          fnOut' = [op |-> "map", err |-> r.err, targets |-> r.targets]
    /\ UNCHANGED <<loopVars, diffVars, fnIn>>

FnNext ==
    \/ CallLoadConfigFile
    \/ CallDiscoverTargets
    \/ CallDiscoverComputeByTags
    \/ CallInstanceToTargets

SpecFn == FnInit /\ [][FnNext]_vars

(***************************************************************************)
(* Properties of the loop (specification Spec).                            *)
(***************************************************************************)
\* a step in which one iteration of main's for loop runs to its end
CycleEnds == mainPc = "returned" /\ mainPc' = "range"

\* a step in which one iteration runs, to its end or into a panic
CycleRan == InCycle /\ mainPc' \in {"range", "crashed"}

\* the file, the write counter and currentTargets as the cycle that ends in
\* this step found them
FileBefore == lastCycle'.before.file
WritesBefore == lastCycle'.before.resultWrite
CurrentBefore == lastCycle'.before.currentTargets

\* the content a successful write of targets leaves in the file
Written(targets) == FileOf(Marshal(Slice(SortTargets(targets))))

\* C1: in a cycle that is not forced and whose discovery succeeds, WriteTargets
\* is called if and only if the differ finds the discovered set different from
\* the set of the last successful write; a write that succeeds leaves the
\* encoding of the discovered set in the file; without a difference nothing is
\* written and the file and the write counter stay as they were.
C1_WriteIffDifferent ==
    [][(CycleEnds /\ ~force /\ lastCycle'.status = "ok") =>
        LET differs == targetsDifferent(Slice(lastCycle'.new), lastWritten)
        IN /\ lastCycle'.wrote <=> differs
           /\ differs => resultWrite' = WritesBefore + 1
           /\ (differs /\ lastCycle'.io = "ok") => file' = Written(lastCycle'.new)
           /\ ~differs => (file' = FileBefore /\ resultWrite' = WritesBefore)]_vars

\* a cycle that was not forced found targets, all of them as last written, and
\* skipped the write
C1_Witness ==
    /\ lastCycle.status = "ok"
    /\ ~lastCycle.force
    /\ ~lastCycle.wrote
    /\ Len(lastCycle.new) > 1
    /\ file = Written(lastCycle.new)

\* C2, as a finite run refutes it: a cycle that is not forced, whose discovery
\* succeeds and in which no write fails leaves the encoding of the discovered
\* set in the file.  (Where it does not, current and file are as before the
\* cycle, so every later such cycle that discovers the same set leaves them as
\* they are: the file never comes to hold the set.)
C2_FileHoldsDiscoveredSet ==
    (mainPc = "range" /\ lastCycle.status = "ok" /\ ~lastCycle.force
       /\ ~lastCycle.err)
        => file = Written(lastCycle.new)

\* C3: a forced cycle whose discovery succeeds calls WriteTargets and counts the
\* write, whatever the differ would say; when the write succeeds the file holds
\* the encoding of the discovered set.
C3_ForcedCycleWrites ==
    [][(CycleEnds /\ force /\ lastCycle'.status = "ok") =>
        /\ lastCycle'.wrote
        /\ resultWrite' = WritesBefore + 1
        /\ lastCycle'.io = "ok" =>
              (file' = Written(lastCycle'.new) /\ lastWritten' = Slice(lastCycle'.new))
        /\ lastCycle'.io = "create-fails" => file' = FileBefore]_vars

\* a forced cycle wrote a set that did not differ from the last one written
C3_Witness ==
    /\ lastCycle.force
    /\ lastCycle.status = "ok"
    /\ lastCycle.wrote
    /\ ~lastCycle.err
    /\ ~lastCycle.differed
    /\ Len(lastCycle.new) > 0
    /\ file = Written(lastCycle.new)

\* the fetch of the last project listed in the cycle failed
FetchFailed(c) ==
    Len(c.fetched) > 0 /\ c.api[c.fetched[Len(c.fetched)]].err

\* C4: a cycle in which a fetch fails (an error of the API or the deadline)
\* calls no write, leaves the file, currentTargets and the write counter as
\* they were and adds one to the failure counter and nothing to the success
\* counter.
C4_FetchFailure ==
    [][(CycleRan /\ FetchFailed(lastCycle')) =>
        /\ ~lastCycle'.wrote
        /\ file' = FileBefore
        /\ currentTargets' = CurrentBefore
        /\ resultWrite' = WritesBefore
        /\ syncFailure' = syncFailure + 1
        /\ syncSuccess' = syncSuccess]_vars

\* a fetch failed in a cycle that ran after the file had been written
C4_Witness ==
    /\ FetchFailed(lastCycle)
    /\ file.kind = "yaml"
    /\ Len(file.doc) > 0
    /\ syncFailure = 1

\* C5: when WriteTargets fails, the file is as it was before the cycle, and a
\* later cycle that discovers the same set attempts the write again (the differ
\* finds that set different from currentTargets).
C5_FailedWriteKeepsFile ==
    [][(CycleEnds /\ lastCycle'.wrote /\ lastCycle'.err) =>
        /\ file' = FileBefore
        /\ targetsDifferent(Slice(lastCycle'.new), currentTargets')]_vars

\* C6: every cycle adds one to exactly one of the two result counters: to the
\* success counter when it completed, written or not, and to the failure
\* counter only when a fetch or the mapping of an instance failed.
C6_OneCounterPerCycle ==
    [][CycleRan =>
        /\ \/ (syncSuccess' = syncSuccess + 1 /\ syncFailure' = syncFailure)
           \/ (syncSuccess' = syncSuccess /\ syncFailure' = syncFailure + 1)
        /\ syncFailure' = syncFailure + 1 => lastCycle'.status \in {"fetch", "map"}
        /\ lastCycle'.status = "ok" => syncSuccess' = syncSuccess + 1]_vars

\* the instance pointers of a listing that the tag filter passes for tags
Matching(instances, tags) ==
    LET Keep(p) == p # Nil /\ p[1].Tags # Nil /\ tagsMatch(tags, p[1].Tags[1].Items)
    IN SelectSeq(instances, Keep)

NoInterface(p) == findInstanceIP(p[1].NetworkInterfaces).err

\* the answers of the API without the instances that have no usable interface
UsableOnly(api) ==
    LET Usable(p) == p = Nil \/ ~NoInterface(p)
    IN [p \in DOMAIN api |->
          [err |-> api[p].err, instances |-> SelectSeq(api[p].instances, Usable)]]

\* some rule matches an instance that has no usable interface, another
\* instance matches too, and nothing else goes wrong in the listings
SkipCase(api, searchConfigs) ==
    /\ \A p \in DOMAIN api :
          /\ ~api[p].err
          /\ \A i \in 1..Len(api[p].instances) : ~HasNilTags(api[p].instances[i])
    /\ \E r \in 1..Len(searchConfigs) :
          LET m == Matching(api[searchConfigs[r].Project].instances, searchConfigs[r].Tags)
          IN /\ \E i \in 1..Len(m) : NoInterface(m[i])
             /\ \E i \in 1..Len(m) : ~NoInterface(m[i])

\* C7: a matching instance without a usable interface is skipped: the cycle
\* succeeds and discovers the targets of all the other matching instances.
C7_InstanceSkipped ==
    [][(CycleRan /\ SkipCase(lastCycle'.api, config)) =>
        /\ lastCycle'.status = "ok"
        /\ syncSuccess' = syncSuccess + 1
        /\ lastCycle'.new = DiscoverTargets(UsableOnly(lastCycle'.api), config).targets]_vars

\* the answer for every project lists the same instances as before, with no
\* error, and at least one of them in another order
Reordered(before, after) ==
    /\ DOMAIN before = DOMAIN after
    /\ before # after
    /\ \A p \in DOMAIN before :
          /\ ~before[p].err
          /\ ~after[p].err
          /\ Len(before[p].instances) = Len(after[p].instances)
          /\ {before[p].instances[i] : i \in 1..Len(before[p].instances)}
               = {after[p].instances[i] : i \in 1..Len(after[p].instances)}

\* C9: after a cycle that wrote the set it discovered, a cycle that is not
\* forced and gets the same instances in another order calls no write.
C9_OrderOfInventoryIgnored ==
    [][(CycleRan /\ ~force /\ lastCycle.wrote /\ ~lastCycle.err
          /\ Reordered(lastCycle.api, lastCycle'.api)) =>
        /\ lastCycle'.status = "ok"
        /\ ~lastCycle'.wrote
        /\ file' = FileBefore]_vars

\* the loop's own state: what only the running cycle may change
CycleState == <<mainPc, force, newTargets, loopErr, currentTargets, file,
                syncSuccess, syncFailure, resultWrite, targetCount>>

\* a step of the cycle in progress: main moves on in its iteration, with the
\* trigger it has, and takes nothing from tChan
CycleAdvances ==
    /\ InCycle
    /\ mainPc' \notin {mainPc, "loop"}
    /\ force' = force
    /\ tChan' = tChan

\* C11: cycles never overlap.  While a cycle is in progress every step either
\* is a step of that cycle or leaves it as it is, a trigger that arrives is
\* appended to tChan and none is taken from it; a cycle starts only when main
\* is back at the range statement.
C11_CyclesNeverOverlap ==
    [][/\ InCycle =>
            \/ CycleAdvances
            \/ /\ UNCHANGED CycleState
               /\ \/ tChan' = tChan
                  \/ \E b \in BOOLEAN : tChan' = Append(tChan, b)
       /\ (mainPc # "loop" /\ mainPc' = "loop") =>
            (mainPc = "range" /\ tChan = <<force'>> \o tChan')]_vars

\* the first cycle is in progress, a timer trigger and a signal trigger that
\* arrived meanwhile are queued, and one more signal is waiting
C11_Witness ==
    /\ mainPc = "loop"
    /\ lastCycle.status = "none"
    /\ tChan = <<FALSE, TRUE>>
    /\ sigChan = 1

\* C12 (specification SpecFair): after a signal is delivered to a process
\* whose main goroutine has reached its loop, a forced cycle starts (as long as
\* the model's bound on cycles lets cycles start).
C12_SignalForcesCycle ==
    (signalled /\ mainPc # "kickoff") ~>
        (~signalled \/ syncSuccess + syncFailure >= MaxCycles)

\* a step in which a cycle fails: loop returns an error
CycleFails == mainPc = "returned" /\ syncFailure' = syncFailure + 1

\* C14: when a cycle fails the loop goes on (main is back at the range
\* statement), and it has to wait for the next timer firing or signal before it
\* runs another cycle: no timer trigger is there for it to take at once.
C14_WaitsAfterFailure ==
    [][CycleFails =>
        /\ mainPc' = "range"
        /\ \A i \in 1..Len(tChan') : tChan'[i]]_vars

\* the listing of some project a rule names holds an instance without a tag set
ListsNilTags(api, searchConfigs) ==
    /\ \A p \in DOMAIN api : ~api[p].err
    /\ \E p \in DOMAIN api :
          \E i \in 1..Len(api[p].instances) : HasNilTags(api[p].instances[i])

\* the answers of the API without the instances that have no tag set
TaggedOnly(api) ==
    LET Tagged(p) == ~HasNilTags(p)
    IN [p \in DOMAIN api |->
          [err |-> api[p].err, instances |-> SelectSeq(api[p].instances, Tagged)]]

\* C16: an instance without a tag set matches no rule: the cycle that lists it
\* neither crashes nor fails because of it and discovers what it would have
\* discovered without that instance.
C16_NilTagsNotMatching ==
    [][(CycleRan /\ ListsNilTags(lastCycle'.api, config)) =>
        /\ mainPc' = "range"
        /\ lastCycle'.status # "panic"
        /\ lastCycle'.new = DiscoverTargets(TaggedOnly(lastCycle'.api), config).targets]_vars

\* C20: the write counter counts the writes that completed: a cycle adds one to
\* it when its write succeeded and nothing otherwise.
C20_CounterCountsCompletedWrites ==
    [][CycleRan =>
        resultWrite' = WritesBefore +
            (IF lastCycle'.wrote /\ ~lastCycle'.err THEN 1 ELSE 0)]_vars

(***************************************************************************)
(* Properties of targetsDifferent alone (specification SpecDiff).          *)
(***************************************************************************)
\* C8: targetsDifferent finds no difference between a Target Set and a
\* permutation of it (of its Targets, or of the endpoints of one Target).
C8_PermutationIsSame ==
    (dEdit \in {"permute-targets", "permute-endpoints"} /\ dResult # "none")
        => dResult = "same"

\* C10: targetsDifferent finds a difference when the second set has one Target
\* more or less, or one Target with other endpoints, another label value, a
\* label more or a label less, and is otherwise the first set.
DifferingEdits ==
    {"drop-target", "add-target", "change-endpoints", "change-label-value",
     "add-label-key", "remove-label-key"}

C10_EditIsDifferent ==
    (dEdit \in DifferingEdits /\ dResult # "none") => dResult = "different"

\* a set of two Targets was compared with the same set with one label removed
C10_Witness ==
    /\ dEdit = "remove-label-key"
    /\ Len(dOld.items) = 2
    /\ dResult = "different"

(***************************************************************************)
(* Properties of the functions alone (specification SpecFn).               *)
(***************************************************************************)
ToSet(q) == {q[i] : i \in 1..Len(q)}

\* C13: in a discovery in which no fetch fails, every project the rules name
\* is listed exactly once, however many rules name it.  (The cache is a local
\* variable of DiscoverTargets: a call starts with none of the earlier
\* listings, as DiscoverTargets is a function of this call's answers alone.)
C13_EachProjectListedOnce ==
    (fnOut.op = "discover" /\ fnOut.status # "fetch") =>
        /\ NoRepeat(fnOut.fetched)
        /\ ToSet(fnOut.fetched) = ProjectsOf(fnIn.rules)

\* the instance pointer p has every one of the tags
HasAllTags(p, tags) == p # Nil /\ ToSet(tags) \subseteq ToSet(p[1].Tags[1].Items)

\* C15: the tag filter keeps, in the order of the listing, exactly the
\* instances whose tag list holds every required tag, compared byte for byte;
\* with one more required tag it keeps no instance it did not keep before.
C15_FilterIsSubsetTest ==
    fnOut.op = "filter" =>
        LET Keep(p) == HasAllTags(p, fnIn.searchTags)
        IN /\ ~fnOut.panic
           /\ fnOut.instances = SelectSeq(fnIn.allInstances, Keep)
           /\ \A t \in FnTags :
                ToSet(DiscoverComputeByTags(fnIn.allInstances,
                                            Append(fnIn.searchTags, t)).instances)
                    \subseteq ToSet(fnOut.instances)

\* two tags were required; of two instances the filter kept the one that has
\* both and dropped the one that has "Web" where "web" is required
C15_Witness ==
    /\ fnOut.op = "filter"
    /\ fnIn.searchTags = <<sDb, sWeb>>
    /\ Len(fnIn.allInstances) = 2
    /\ fnIn.allInstances[1] # Nil
    /\ fnIn.allInstances[1][1].Tags[1].Items = <<sWebUp>>
    /\ fnOut.instances = <<fnIn.allInstances[2]>>

\* the number a string of decimal digits denotes
RECURSIVE Decimal(_)
Decimal(d) ==
    IF Len(d) = 0 THEN 0
    ELSE 10 * Decimal(SubSeq(d, 1, Len(d) - 1)) + (d[Len(d)] - 48)

\* e is ip, a colon, and the decimal digits of port
IsEndpoint(e, ip, port) ==
    \E k \in 1..(Len(e) - 1) :
        /\ e[k] = 58
        /\ SubSeq(e, 1, k - 1) = ip
        /\ \A i \in (k + 1)..Len(e) : e[i] \in 48..57
        /\ (Len(e) > k + 1 => e[k + 1] # 48)
        /\ Decimal(SubSeq(e, k + 1, Len(e))) = port

\* seg is what follows the last "/" of uri (all of uri when it has none)
IsLastSegment(uri, seg) ==
    /\ 47 \notin ToSet(seg)
    /\ \/ uri = seg
       \/ \E k \in 1..Len(uri) : SubSeq(uri, k, Len(uri)) = <<47>> \o seg

\* C17: the mapper takes the IP of the first interface that is not nil and
\* gives one target per port of the rule, in the rule's order, whose single
\* endpoint is "<ip>:<port>" and whose labels carry the rule's job and project
\* and the last path segments of the zone and of the machine type; without a
\* usable interface it returns an error and no target.
C17_MapperOutput ==
    fnOut.op = "map" =>
        LET nics == fnIn.instance.NetworkInterfaces
            usable == {i \in 1..Len(nics) : nics[i] # Nil}
            first == CHOOSE i \in usable : \A j \in usable : i <= j
            ports == fnIn.rule.Ports
        IN /\ fnOut.err <=> usable = {}
           /\ fnOut.err => fnOut.targets = <<>>
           /\ ~fnOut.err =>
                /\ Len(fnOut.targets) = Len(ports)
                /\ \A p \in 1..Len(ports) :
                     LET t == fnOut.targets[p]
                     IN /\ Len(t.Targets) = 1
                        /\ IsEndpoint(t.Targets[1], nics[first][1].NetworkIP, ports[p])
                        /\ t.Labels[kJob] = fnIn.rule.Job
                        /\ t.Labels[kProject] = fnIn.rule.Project
                        /\ IsLastSegment(fnIn.instance.Zone, t.Labels[kZone])
                        /\ IsLastSegment(fnIn.instance.MachineType, t.Labels[kType])

\* an instance whose first interface is not its only one was mapped with a
\* rule of two ports that are not in ascending order
C17_Witness ==
    /\ fnOut.op = "map"
    /\ fnIn.instance.NetworkInterfaces = <<Iface(sIP2), Nil, Iface(sIP1)>>
    /\ fnIn.instance.Zone = sZone
    /\ fnIn.rule.Ports = <<10, 9>>
    /\ ~fnOut.err
    /\ Len(fnOut.targets) = 2

\* C18: in the label made from the tags of the instance every tag stands in
\* lower case with "_" for each "-".
C18_TagsFormatted ==
    (fnOut.op = "map" /\ ~fnOut.err) =>
        LET items == fnIn.instance.Tags[1].Items
            formatted == [i \in 1..Len(items) |-> formatTag(items[i])]
        IN \A p \in 1..Len(fnOut.targets) :
              fnOut.targets[p].Labels[kTags] = <<44>> \o Join(formatted, <<44>>) \o <<44>>

\* a mapping of the document that LoadConfigFile has to refuse
BadRule(m) ==
    \/ ~("job" \in DOMAIN m /\ m["job"] # <<>>)
    \/ ~("tags" \in DOMAIN m /\ m["tags"] # <<>>)
    \/ ~("project" \in DOMAIN m /\ m["project"] # <<>>)
    \/ ~("ports" \in DOMAIN m /\ m["ports"] # <<>>)
    \/ ~(DOMAIN m \subseteq KnownKeys)

\* C19: loading fails as a whole (an error, no rule, the process exits before
\* its loop) when some rule lacks a job, a tag, a project or a port or has a key
\* that is not recognized; otherwise every rule is returned, in the order of
\* the document, and the loop starts.
C19_LoadAllOrNothing ==
    (fnOut.op = "load" /\ fnIn.read = "ok") =>
        /\ fnOut.err <=> \E i \in 1..Len(fnIn.doc) : BadRule(fnIn.doc[i])
        /\ fnOut.err => (fnOut.config = <<>> /\ mainPc = "exited" /\ tChan = <<>>)
        /\ ~fnOut.err =>
             /\ mainPc = "kickoff"
             /\ config = fnOut.config
             /\ Len(fnOut.config) = Len(fnIn.doc)
             /\ \A i \in 1..Len(fnIn.doc) :
                  /\ fnOut.config[i].Job = fnIn.doc[i]["job"]
                  /\ fnOut.config[i].Tags = fnIn.doc[i]["tags"]
                  /\ fnOut.config[i].Project = fnIn.doc[i]["project"]
                  /\ fnOut.config[i].Ports = fnIn.doc[i]["ports"]

\* a document whose first rule is complete and whose second has no port was
\* refused
C19_Witness ==
    /\ fnOut.op = "load"
    /\ fnIn.read = "ok"
    /\ Len(fnIn.doc) = 2
    /\ ~BadRule(fnIn.doc[1])
    /\ "ports" \in DOMAIN fnIn.doc[2]
    /\ fnIn.doc[2]["ports"] = <<>>
    /\ fnOut.err
    /\ mainPc = "exited"

(***************************************************************************)
(* Properties of the gauge, of main's memory and of the trigger channel    *)
(* (specification Spec).                                                   *)
(***************************************************************************)
\* the value a scrape reads for gcesd_targets{job}: a series never set reads
\* as no target
GaugeOf(gauge, j) == IF j \in DOMAIN gauge THEN gauge[j] ELSE 0

\* C21: after every cycle whose discovery succeeded, the gauge of every job is
\* the number of targets the job has in the set just discovered, the jobs that
\* had targets in an earlier cycle and have none now included.
C21_GaugeIsPerJobCount ==
    [][(CycleRan /\ lastCycle'.status = "ok") =>
        \A j \in Jobs :
            GaugeOf(targetCount', j) = CountJob(lastCycle'.new, j)]_vars

\* two sequences hold the same targets, each as many times
SameTargets(a, b) ==
    /\ Len(a) = Len(b)
    /\ \A x \in ToSet(a) \cup ToSet(b) :
          Cardinality({i \in 1..Len(a) : a[i] = x}) =
          Cardinality({i \in 1..Len(b) : b[i] = x})

\* a step that ends a cycle which called WriteTargets and whose write succeeded
WriteSucceeds == CycleRan /\ lastCycle'.wrote /\ ~lastCycle'.err

\* C22: main's currentTargets changes only in a cycle whose write succeeded, and
\* it then holds the targets that cycle discovered; a cycle that fails in
\* discovery, skips the write or fails in the write leaves it as it was, and so
\* does every step outside a cycle.
C22_MemoryFollowsWrites ==
    [][/\ WriteSucceeds =>
            /\ ~currentTargets'.nil
            /\ SameTargets(currentTargets'.items, lastCycle'.new)
       /\ (CycleRan /\ ~WriteSucceeds) => currentTargets' = CurrentBefore
       /\ currentTargets' # currentTargets =>
            (mainPc = "written" /\ cycle.wrote /\ cycle.io = "ok")]_vars

\* a cycle discovered a set other than the one in memory and its write failed:
\* memory still holds the set of the earlier write
C22_Witness ==
    /\ lastCycle.status = "ok"
    /\ lastCycle.wrote
    /\ lastCycle.err
    /\ lastCycle.new # <<>>
    /\ currentTargets.items # <<>>
    /\ ~SameTargets(currentTargets.items, lastCycle.new)

\* a step in which main receives the trigger of its first cycle
FirstCycleStarts ==
    /\ mainPc = "range"
    /\ mainPc' = "loop"
    /\ lastCycle.status = "none"

\* C23: the first cycle is triggered at startup, without waiting for the timer,
\* and it is not forced.  When main reaches its loop the trigger of the first
\* cycle is ready for it, and the trigger the first cycle receives is a false
\* one.
C23_FirstCycleAtStartup ==
    [][/\ (mainPc' = "range" /\ lastCycle'.status = "none") => Len(tChan') > 0
       /\ FirstCycleStarts => ~force']_vars

\* a step in which a sender puts its trigger at the end of the queue: the
\* goroutine of tickAndListen, or tickAndListen itself at startup
Produced ==
    \/ /\ tickerPc \in {"send-false", "send-true"}
       /\ tickerPc' = "select"
       /\ tChan' = Append(tChan, tickerPc = "send-true")
    \/ /\ mainPc = "kickoff"
       /\ mainPc' = "range"
       /\ tChan' = Append(tChan, FALSE)

\* a step in which main takes the oldest trigger and starts a cycle with it
Consumed ==
    /\ mainPc = "range"
    /\ mainPc' = "loop"
    /\ tChan = <<force'>> \o tChan'

\* the goroutine of tickAndListen stands at a send into a full channel
SenderBlocked ==
    /\ tickerPc \in {"send-false", "send-true"}
    /\ Len(tChan) = TChanCap

\* C24: tChan never holds more than 2 triggers, and none placed on it is lost
\* or merged.  The channel changes only by a send into a channel that is not
\* full, which adds its trigger at the end, and by the start of a cycle, which
\* takes the oldest; a sender that finds the channel full stays at its send;
\* every cycle starts by taking one trigger and runs with the flag it took.
C24_TriggersQueuedInOrder ==
    [][/\ Len(tChan') <= TChanCap
       /\ tChan' # tChan => ((Len(tChan) < TChanCap /\ Produced) \/ Consumed)
       /\ SenderBlocked => (tickerPc' = tickerPc /\ Len(tChan') >= Len(tChan) - 1)
       /\ (mainPc # "loop" /\ mainPc' = "loop") => Consumed
       /\ CycleRan => (force' = force /\ lastCycle'.force = force)]_vars

\* a cycle has run and another is running with the trigger it took, two
\* triggers of different kinds are queued behind it, and the goroutine waits at
\* its send with a third
C24_Witness ==
    /\ lastCycle.status # "none"
    /\ mainPc = "loop"
    /\ Len(tChan) = TChanCap
    /\ tChan[1] # tChan[2]
    /\ tickerPc = "send-true"

====
